---- MODULE Spec2Model ----
(***************************************************************************)
(* The streaming anomaly-detection engine of nifi-oilgas-monitoring:       *)
(* ThresholdDetector, MovingAverageDetector and RateOfChangeDetector       *)
(* (src/nifi-python-processors).  Each detector's transform(context,       *)
(* flowfile) is one action; the per-sensor stores (_sensor_windows,        *)
(* _sensor_states) are the state.                                          *)
(* Where two threads call transform at once, each access to shared data   *)
(* is one action (SpecMovingAverageThreads, SpecRateOfChangeThreads).      *)
(* generate_reading of the synthetic generator (src/data-generator) is a   *)
(* function applied to inputs drawn by the initial state (SpecGenerator).  *)
(*                                                                         *)
(* Numbers: sensor values are integers.  Mean, standard deviation and      *)
(* deviation are kept as exact fractions (sum/count, variance numerator)   *)
(* and every float comparison of the code is decided by the equivalent     *)
(* integer comparison; where rounding puts the float64 result on the other *)
(* side of a threshold, the window is listed in Float64Above.              *)
(***************************************************************************)
EXTENDS Integers, Sequences, FiniteSets, TLC

VARIABLES
    call,             \* the latest call: detector, context, flowfile (or function, inputs)
    result,           \* what that call returned (or that it raised)
    clock,            \* wall clock, milliseconds after ClockEpoch
    td_context,       \* ThresholdDetector: the configured properties
    ma_context,       \* MovingAverageDetector: the configured properties
    roc_context,      \* RateOfChangeDetector: the configured properties
    _sensor_windows,  \* MovingAverageDetector._sensor_windows: sensor_id -> deque
    _sensor_states,   \* RateOfChangeDetector._sensor_states: sensor_id -> SensorState
    ma_history,       \* ghost: per sensor, the values of its successful readings
    ma_fixed,         \* ghost: per sensor, whether all its readings ran under one window size
    threads,          \* concurrent calls of transform: position and locals of each thread
    heap,             \* concurrent calls: the deque objects, by reference
    base              \* ghost: the store before the concurrent calls began

vars == << call, result, clock, td_context, ma_context, roc_context,
           _sensor_windows, _sensor_states, ma_history, ma_fixed,
           threads, heap, base >>

concurrency == << threads, heap, base >>

contexts == << td_context, ma_context, roc_context >>

ma_state == << _sensor_windows, ma_history, ma_fixed >>

----------------------------------------------------------------------------
(* Python values.  None is <<>>, a present value x is <<x>>.               *)

None == << >>

Some(x) == << x >>

Max(a, b) == IF a >= b THEN a ELSE b

Min(a, b) == IF a <= b THEN a ELSE b

Abs(x) == IF x < 0 THEN -x ELSE x

(* JSON values of a reading's fields: one record shape for every type.     *)
(* t is the JSON type, s the string as a sequence of characters, and the   *)
(* number is hi * 10^6 + n + f / 1000 (TLC's integers are 32 bits wide and *)
(* epoch milliseconds are not; sensor values have hi = 0 and f = 0; a      *)
(* number with f # 0 is a float with a fractional part, in thousandths).   *)
(* "absent" is a key the object does not have.                             *)
JAbsent == [t |-> "absent", hi |-> 0, n |-> 0, f |-> 0, s |-> << >>]

JNull == [t |-> "null", hi |-> 0, n |-> 0, f |-> 0, s |-> << >>]

JNum(x) == [t |-> "number", hi |-> 0, n |-> x, f |-> 0, s |-> << >>]

JBig(h, l) == [t |-> "number", hi |-> h, n |-> l, f |-> 0, s |-> << >>]

JFrac(h, l, thousandths) ==
    [t |-> "number", hi |-> h, n |-> l, f |-> thousandths, s |-> << >>]

JStr(chars) == [t |-> "string", hi |-> 0, n |-> 0, f |-> 0, s |-> chars]

JList == [t |-> "array", hi |-> 0, n |-> 0, f |-> 0, s |-> << >>]

(* dict.get(key): None for a missing key and for a JSON null alike.        *)
IsNone(v) == v.t \in {"absent", "null"}

(* A truthiness test that lets everything through.                         *)
Truthy_Unchecked(v) == TRUE

(* Python truthiness, as `not sensor_id` / `if reading.get(...)` test it.  *)
(* JList stands for a non-empty array.                                     *)
Truthy(v) ==
    CASE v.t \in {"absent", "null"} -> FALSE
      [] v.t = "number" -> v.hi # 0 \/ v.n # 0 \/ v.f # 0
      [] v.t = "string" -> v.s # << >>
      [] OTHER -> TRUE

(* Whether the value can be a dict key: a list is unhashable (TypeError).  *)
Hashable(v) == v.t # "array"

Digits == {"0", "1", "2", "3", "4", "5", "6", "7", "8", "9"}

DigitValue(c) ==
    CASE c = "0" -> 0 [] c = "1" -> 1 [] c = "2" -> 2 [] c = "3" -> 3
      [] c = "4" -> 4 [] c = "5" -> 5 [] c = "6" -> 6 [] c = "7" -> 7
      [] c = "8" -> 8 [] c = "9" -> 9

RECURSIVE DigitsValue(_)
DigitsValue(chars) ==
    IF chars = << >> THEN 0
    ELSE 10 * DigitsValue(SubSeq(chars, 1, Len(chars) - 1))
         + DigitValue(chars[Len(chars)])

(* The text of a decimal integer: an optional sign, then one digit or more. *)
IsNumericText(chars) ==
    LET body == IF chars # << >> /\ chars[1] = "-" THEN Tail(chars) ELSE chars
    IN  /\ body # << >>
        /\ \A i \in 1..Len(body) : body[i] \in Digits

NumericTextValue(chars) ==
    IF chars[1] = "-" THEN -DigitsValue(Tail(chars)) ELSE DigitsValue(chars)

(* float(value): whether it succeeds (no TypeError / ValueError) ...       *)
FloatOk(v) ==
    CASE v.t = "number" -> TRUE
      [] v.t = "string" -> IsNumericText(v.s)
      [] OTHER -> FALSE

(* ... and the number it gives.                                            *)
Float(v) == IF v.t = "number" THEN v.n ELSE NumericTextValue(v.s)

----------------------------------------------------------------------------
(* FlowFiles.  content says how far decoding and parsing get:              *)
(*   "invalid_utf8"  the bytes are not UTF-8                               *)
(*   "invalid_json"  text that json.loads rejects                          *)
(*   "non_object"    well-formed JSON whose top level is not an object     *)
(*   "object"        a JSON object with the fields below                   *)
(* other holds the fields of the object that no detector reads, by name.   *)

FlowFile(content, sensor_id, value, platform_id, timestamp) ==
    [content |-> content, sensor_id |-> sensor_id, value |-> value,
     platform_id |-> platform_id, timestamp |-> timestamp, other |-> << >>]

S1 == JStr(<< "S", "1" >>)

S2 == JStr(<< "S", "2" >>)

P1 == JStr(<< "P", "1" >>)

MalformedFlowFiles ==
    { FlowFile(c, JAbsent, JAbsent, JAbsent, JAbsent) :
        c \in {"invalid_utf8", "invalid_json", "non_object"} }

(* What the failure paths of the three transforms return.                  *)
Failure(error) ==
    [relationship |-> "failure",
     attributes |-> [anomaly_error |-> error, anomaly_severity |-> "UNKNOWN"]]

(* An exception that leaves transform: no FlowFileTransformResult at all.  *)
Raised(exception) ==
    [relationship |-> "raised", exception |-> exception]

NoResult == [relationship |-> "none"]

(* The echo without its `if reading.get(...)` guard.                       *)
Echo_Unguarded(v) == Some(v)

(* reading.get("sensor_id") / reading.get("platform_id") echoed into the   *)
(* attributes only when truthy.                                            *)
Echo(v) == IF Truthy(v) THEN Some(v) ELSE None

(* str(x) of a number, kept apart from the number itself.                  *)
Str(x) == << "str", x >>

(* A JSON object met as the value of a field.                              *)
JObject == [t |-> "object", hi |-> 0, n |-> 0, f |-> 0, s |-> << >>]

(* The dict json.loads gives for a reading: its fields by name.            *)
ReadingFields == {"sensor_id", "value", "platform_id", "timestamp"}

Fields(reading) ==
    LET named == {k \in ReadingFields : reading[k].t # "absent"}
    IN  [k \in named \cup DOMAIN reading.other |->
            IF k \in named THEN reading[k] ELSE reading.other[k]]

(* The same where the float made of `value` is written back to the dict.   *)
json_dumps_FloatValue(reading, key, nested) ==
    LET fields == Fields(reading)
    IN  [k \in DOMAIN fields \cup {key} |->
            IF k = key THEN nested
            ELSE IF k = "value" /\ FloatOk(fields[k]) THEN JNum(Float(fields[k]))
            ELSE fields[k]]

(* reading[key] = nested; json.dumps(reading): the object written out.     *)
json_dumps(reading, key, nested) ==
    LET fields == Fields(reading)
    IN  [k \in DOMAIN fields \cup {key} |-> IF k = key THEN nested ELSE fields[k]]

----------------------------------------------------------------------------
(* ThresholdDetector                                                       *)

(* The values a reading's `value` takes and the bounds a context holds.    *)
MaxValue == 3

Values == 0..(MaxValue + 1)

ThresholdBounds == {1, MaxValue}

TDContexts ==
    [critical_high : ThresholdBounds, warning_high : ThresholdBounds,
     critical_low : ThresholdBounds, warning_low : ThresholdBounds]

MaxClock == 1

Clocks == 0..MaxClock

SensorIdInputs == {JAbsent, JStr(<< >>), S1, S2, JNum(7), JList}

ValueInputs ==
    {JAbsent, JNull, JStr(<< "a", "b", "c" >>), JStr(<< "2" >>), JList}
        \cup {JNum(v) : v \in Values}

TDFlowFiles ==
    MalformedFlowFiles
        \cup {FlowFile("object", sid, v, JAbsent, JAbsent) :
                 sid \in SensorIdInputs, v \in ValueInputs}

(* _classify with the two warning tests moved ahead of the critical ones.  *)
ThresholdDetector_classify_WarningFirst(value, critical_high, warning_high, critical_low, warning_low) ==
    IF value >= warning_high
    THEN [severity |-> "WARNING", type |-> "threshold_warning",
          threshold_value |-> Some(warning_high)]
    ELSE IF value <= warning_low
    THEN [severity |-> "WARNING", type |-> "threshold_warning",
          threshold_value |-> Some(warning_low)]
    ELSE IF value >= critical_high
    THEN [severity |-> "CRITICAL", type |-> "threshold_exceeded",
          threshold_value |-> Some(critical_high)]
    ELSE IF value <= critical_low
    THEN [severity |-> "CRITICAL", type |-> "threshold_exceeded",
          threshold_value |-> Some(critical_low)]
    ELSE [severity |-> "NORMAL", type |-> "none", threshold_value |-> None]

(* _classify whose warning returns leave the anomaly type at "none".       *)
ThresholdDetector_classify_UntypedWarning(value, critical_high, warning_high, critical_low, warning_low) ==
    IF value >= critical_high
    THEN [severity |-> "CRITICAL", type |-> "threshold_exceeded",
          threshold_value |-> Some(critical_high)]
    ELSE IF value <= critical_low
    THEN [severity |-> "CRITICAL", type |-> "threshold_exceeded",
          threshold_value |-> Some(critical_low)]
    ELSE IF value >= warning_high
    THEN [severity |-> "WARNING", type |-> "none",
          threshold_value |-> Some(warning_high)]
    ELSE IF value <= warning_low
    THEN [severity |-> "WARNING", type |-> "none",
          threshold_value |-> Some(warning_low)]
    ELSE [severity |-> "NORMAL", type |-> "none", threshold_value |-> None]

(* _classify whose critical-low return reports the warning-low bound.      *)
ThresholdDetector_classify_WrongBound(value, critical_high, warning_high, critical_low, warning_low) ==
    IF value >= critical_high
    THEN [severity |-> "CRITICAL", type |-> "threshold_exceeded",
          threshold_value |-> Some(critical_high)]
    ELSE IF value <= critical_low
    THEN [severity |-> "CRITICAL", type |-> "threshold_exceeded",
          threshold_value |-> Some(warning_low)]
    ELSE IF value >= warning_high
    THEN [severity |-> "WARNING", type |-> "threshold_warning",
          threshold_value |-> Some(warning_high)]
    ELSE IF value <= warning_low
    THEN [severity |-> "WARNING", type |-> "threshold_warning",
          threshold_value |-> Some(warning_low)]
    ELSE [severity |-> "NORMAL", type |-> "none", threshold_value |-> None]

(* _classify: (severity, anomaly_type, threshold_value); the description   *)
(* text is not modelled.                                                   *)
ThresholdDetector_classify(value, critical_high, warning_high, critical_low, warning_low) ==
    IF value >= critical_high
    THEN [severity |-> "CRITICAL", type |-> "threshold_exceeded",
          threshold_value |-> Some(critical_high)]
    ELSE IF value <= critical_low
    THEN [severity |-> "CRITICAL", type |-> "threshold_exceeded",
          threshold_value |-> Some(critical_low)]
    ELSE IF value >= warning_high
    THEN [severity |-> "WARNING", type |-> "threshold_warning",
          threshold_value |-> Some(warning_high)]
    ELSE IF value <= warning_low
    THEN [severity |-> "WARNING", type |-> "threshold_warning",
          threshold_value |-> Some(warning_low)]
    ELSE [severity |-> "NORMAL", type |-> "none",
          threshold_value |-> None]

(* The success return with detected_at left at zero.                      *)
ThresholdDetector_success_Unstamped(reading, c, detected_at) ==
    LET anomaly == [severity |-> c.severity, type |-> c.type,
                    threshold_value |-> c.threshold_value,
                    detected_at |-> 0,
                    detector |-> "ThresholdDetector"]
    IN
    [relationship |-> "success",
     contents |->
        [reading |-> reading, anomaly |-> anomaly,
         record |-> json_dumps(reading, "anomaly", anomaly)],
     attributes |->
        [anomaly_severity |-> c.severity,
         anomaly_type |-> c.type,
         anomaly_threshold_value |->
            IF c.threshold_value # None THEN Str(c.threshold_value[1]) ELSE << >>,
         anomaly_detected_at |-> Str(0),
         anomaly_detector |-> "ThresholdDetector",
         sensor_id |-> Echo(reading.sensor_id),
         platform_id |-> Echo(reading.platform_id)]]

(* The success return: the enriched record and the attributes.            *)
ThresholdDetector_success(reading, c, detected_at) ==
    LET anomaly == [severity |-> c.severity, type |-> c.type,
                    threshold_value |-> c.threshold_value,
                    detected_at |-> detected_at,
                    detector |-> "ThresholdDetector"]
    IN
    [relationship |-> "success",
     contents |->
        [reading |-> reading, anomaly |-> anomaly,
         record |-> json_dumps(reading, "anomaly", anomaly)],
     attributes |->
        [anomaly_severity |-> c.severity,
         anomaly_type |-> c.type,
         anomaly_threshold_value |->
            IF c.threshold_value # None THEN Str(c.threshold_value[1]) ELSE << >>,
         anomaly_detected_at |-> Str(detected_at),
         anomaly_detector |-> "ThresholdDetector",
         sensor_id |-> Echo(reading.sensor_id),
         platform_id |-> Echo(reading.platform_id)]]

(* transform(context, flowfile) at wall-clock time `now`.                  *)
ThresholdDetector_transform(context, flowfile, now) ==
    IF flowfile.content = "invalid_utf8" THEN Raised("UnicodeDecodeError")
    ELSE IF flowfile.content = "invalid_json" THEN Failure("JSON parse error")
    ELSE IF flowfile.content = "non_object" THEN Raised("AttributeError")
    ELSE IF IsNone(flowfile.value) THEN Failure("Missing 'value' field in sensor reading")
    ELSE IF ~FloatOk(flowfile.value) THEN Failure("Non-numeric value")
    ELSE ThresholdDetector_success(
            flowfile,
            ThresholdDetector_classify(Float(flowfile.value), context.critical_high,
                context.warning_high, context.critical_low, context.warning_low),
            now)

TD_EvaluateAt(flowfiles, times) ==
    \E flowfile \in flowfiles, now \in times :
        /\ now >= clock
        /\ clock' = now
        /\ call' = [detector |-> "ThresholdDetector", context |-> td_context,
                    flowfile |-> flowfile]
        /\ result' = ThresholdDetector_transform(td_context, flowfile, now)
        /\ UNCHANGED << contexts, ma_state, _sensor_states, concurrency >>

TD_Evaluate(flowfiles) == TD_EvaluateAt(flowfiles, Clocks)

TD_Transform == TD_Evaluate(TDFlowFiles)

(* The operator reconfigures the processor between two calls.              *)
TD_SetProperties ==
    \E context \in TDContexts :
        /\ context # td_context
        /\ td_context' = context
        /\ UNCHANGED << call, result, clock, ma_context, roc_context, ma_state,
                        _sensor_states, concurrency >>

----------------------------------------------------------------------------
(* MovingAverageDetector                                                   *)

MAValues == {1, 2}

WindowSizes == {2, 5, 11}

DeviationThresholds == {2}

MAContexts == [window_size : WindowSizes, deviation_threshold : DeviationThresholds]

(* Successful evaluations the model follows, over all sensors.             *)
MaxReadings == 6

(* The same, where the three detectors run side by side.                   *)
MaxAnyReadings == 3

MAFlowFiles ==
    {FlowFile("object", S1, JStr(<< "a", "b", "c" >>), JAbsent, JAbsent)}
        \cup {FlowFile("object", S1, JNum(v), JAbsent, JAbsent) : v \in MAValues}
        \cup {FlowFile("object", S2, JNum(1), JAbsent, JAbsent)}

(* Every class of input, well-formed or not, with few distinct readings.    *)
AnyFlowFiles ==
    MalformedFlowFiles
        \cup {FlowFile("object", sid, v, JAbsent, JAbsent) :
                 sid \in {JAbsent, JStr(<< >>), JList, S1, S2},
                 v \in {JAbsent, JNull, JStr(<< "a", "b", "c" >>), JList, JNum(1)}}

(* collections.deque: deque(iterable, maxlen) keeps the last maxlen items, *)
(* append on a full deque drops the leftmost.                              *)
LastN(items, k) ==
    IF Len(items) <= k THEN items ELSE SubSeq(items, Len(items) - k + 1, Len(items))

deque(items, maxlen) == [maxlen |-> maxlen, items |-> LastN(items, maxlen)]

(* append that, on a full deque, drops the newest item instead of the oldest. *)
deque_append_DropNewest(window, x) ==
    IF Len(window.items) >= window.maxlen
    THEN [window EXCEPT !.items =
            Append(SubSeq(window.items, 1, window.maxlen - 1), x)]
    ELSE [window EXCEPT !.items = Append(window.items, x)]

deque_append(window, x) ==
    [window EXCEPT !.items = LastN(Append(window.items, x), window.maxlen)]

(* dict[key] = value on a store kept as a function whose domain is the     *)
(* set of keys.                                                            *)
Put(store, key, v) ==
    [k \in DOMAIN store \cup {key} |-> IF k = key THEN v ELSE store[k]]

(* _get_or_create_window that makes a new deque on every call.             *)
MovingAverageDetector_get_or_create_window_AlwaysNew(windows, sensor_id, window_size) ==
    Put(windows, sensor_id, deque(<< >>, window_size))

(* _get_or_create_window without the rebuild on a changed window size.     *)
MovingAverageDetector_get_or_create_window_KeepExisting(windows, sensor_id, window_size) ==
    IF sensor_id \in DOMAIN windows
    THEN windows
    ELSE Put(windows, sensor_id, deque(<< >>, window_size))

(* _get_or_create_window whose rebuild keeps the oldest values.            *)
MovingAverageDetector_get_or_create_window_KeepOldest(windows, sensor_id, window_size) ==
    IF sensor_id \in DOMAIN windows /\ windows[sensor_id].maxlen = window_size
    THEN windows
    ELSE IF sensor_id \in DOMAIN windows
    THEN Put(windows, sensor_id,
             [maxlen |-> window_size,
              items |-> SubSeq(windows[sensor_id].items, 1,
                               Min(Len(windows[sensor_id].items), window_size))])
    ELSE Put(windows, sensor_id, deque(<< >>, window_size))

(* _get_or_create_window: the store after the call; store[sensor_id] is    *)
(* the deque the call returns.                                             *)
MovingAverageDetector_get_or_create_window(windows, sensor_id, window_size) ==
    IF sensor_id \in DOMAIN windows /\ windows[sensor_id].maxlen = window_size
    THEN windows
    ELSE IF sensor_id \in DOMAIN windows
    THEN Put(windows, sensor_id, deque(windows[sensor_id].items, window_size))
    ELSE Put(windows, sensor_id, deque(<< >>, window_size))

RECURSIVE SeqSum(_)
SeqSum(items) == IF items = << >> THEN 0 ELSE Head(items) + SeqSum(Tail(items))

RECURSIVE SeqSumSq(_)
SeqSumSq(items) ==
    IF items = << >> THEN 0 ELSE Head(items) * Head(items) + SeqSumSq(Tail(items))

(* With n = len(window), S = sum and Q = sum of squares:                   *)
(*   mean = S / n, stddev = sqrt(n*Q - S*S) / n  (np.std, ddof=0),         *)
(*   |value - mean| = |n*value - S| / n,                                   *)
(*   deviation = |n*value - S| / sqrt(n*Q - S*S).                          *)
VarNum(items) == Len(items) * SeqSumSq(items) - SeqSum(items) * SeqSum(items)

DevNum(value, items) == Abs(Len(items) * value - SeqSum(items))

(* The comparison with >= in place of >.                                   *)
DeviationExceeds_OrEquals(value, items, deviation_threshold, factor_num, factor_den) ==
    factor_den * factor_den * DevNum(value, items) * DevNum(value, items)
        >= factor_num * factor_num * deviation_threshold * deviation_threshold
            * VarNum(items)

(* The comparison made on |value - mean| / variance: the square root of   *)
(* np.std left out.                                                        *)
DeviationExceeds_Variance(value, items, deviation_threshold, factor_num, factor_den) ==
    factor_den * Len(items) * DevNum(value, items)
        > factor_num * deviation_threshold * VarNum(items)

(* The arithmetic is IEEE double. On the windows of the model the computed *)
(* deviation is within a few units in the last place of the exact one, so  *)
(* the two compare alike with a threshold except where the exact deviation *)
(* equals it. There they do on every window but these: for 10, 10, 10, 10, *)
(* 11 np.mean rounds 51 / 5 down to 10.199999999999999, |value - mean| is  *)
(* 0.8000000000000007 and the deviation 2.0000000000000018, above the      *)
(* exact 2; 11, 11, 11, 11, 10 gives the same figure.                      *)
Float64Above == {<< 10, 10, 10, 10, 11 >>, << 11, 11, 11, 11, 10 >>}

(* deviation > factor_num / factor_den * deviation_threshold               *)
DeviationExceeds(value, items, deviation_threshold, factor_num, factor_den) ==
    LET computed == factor_den * factor_den
                        * DevNum(value, items) * DevNum(value, items)
        bound == factor_num * factor_num * deviation_threshold
                        * deviation_threshold * VarNum(items)
    IN  \/ computed > bound
        \/ computed = bound /\ items \in Float64Above

Mean(items) == [sum |-> SeqSum(items), count |-> Len(items)]

Stddev(items) == [var_num |-> VarNum(items), count |-> Len(items)]

Deviation(value, items) ==
    [kind |-> "ratio", sq_num |-> DevNum(value, items) * DevNum(value, items),
     sq_den |-> VarNum(items)]

DeviationZero == [kind |-> "zero", sq_num |-> 0, sq_den |-> 1]

DeviationInf == [kind |-> "inf", sq_num |-> 1, sq_den |-> 0]

WarmUpLength_Min(window_size) == Min(5, window_size \div 2)

(* The warm-up length without its floor of five.                           *)
WarmUpLength_Half(window_size) == window_size \div 2

WarmUpLength(window_size) == Max(5, window_size \div 2)

(* _analyze on the window that already holds `value`.                      *)
MovingAverageDetector_analyze(value, window, deviation_threshold, window_size) ==
    LET items == window.items
        stats == [mean |-> Mean(items), stddev |-> Stddev(items)]
    IN  IF Len(items) < WarmUpLength(window_size)
        THEN [severity |-> "NORMAL", type |-> "none", deviation |-> None,
              branch |-> "warming_up"] @@ stats
        ELSE IF VarNum(items) = 0
        THEN IF DevNum(value, items) = 0
             THEN [severity |-> "NORMAL", type |-> "none",
                   deviation |-> Some(DeviationZero), branch |-> "constant"] @@ stats
             ELSE [severity |-> "CRITICAL", type |-> "moving_average_deviation",
                   deviation |-> Some(DeviationInf),
                   branch |-> "constant_broken"] @@ stats
        ELSE IF DeviationExceeds(value, items, deviation_threshold, 3, 2)
        THEN [severity |-> "CRITICAL", type |-> "moving_average_deviation",
              deviation |-> Some(Deviation(value, items)),
              branch |-> "critical"] @@ stats
        ELSE IF DeviationExceeds(value, items, deviation_threshold, 1, 1)
        THEN [severity |-> "WARNING", type |-> "moving_average_deviation",
              deviation |-> Some(Deviation(value, items)),
              branch |-> "warning"] @@ stats
        ELSE [severity |-> "NORMAL", type |-> "none",
              deviation |-> Some(Deviation(value, items)),
              branch |-> "normal"] @@ stats

MovingAverageDetector_success(reading, a, window, window_size, detected_at) ==
    LET moving_average ==
            [severity |-> a.severity, type |-> a.type, deviation |-> a.deviation,
             mean |-> a.mean, stddev |-> a.stddev,
             window_count |-> Len(window.items), window_size |-> window_size,
             detected_at |-> detected_at, detector |-> "MovingAverageDetector"]
    IN
    [relationship |-> "success",
     contents |->
        [reading |-> reading, moving_average |-> moving_average,
         record |-> json_dumps(reading, "moving_average", moving_average)],
     attributes |->
        [anomaly_severity |-> a.severity,
         anomaly_type |-> a.type,
         anomaly_detected_at |-> Str(detected_at),
         anomaly_detector |-> "MovingAverageDetector",
         ma_deviation |->
            IF a.deviation # None THEN Str(a.deviation[1]) ELSE Str(DeviationZero),
         ma_mean |-> Str(a.mean),
         ma_stddev |-> Str(a.stddev),
         ma_window_count |-> Str(Len(window.items)),
         sensor_id |-> Echo(reading.sensor_id),
         platform_id |-> Echo(reading.platform_id)],
     branch |-> a.branch]

(* The store after `window = _get_or_create_window(...); window.append(value)`: *)
(* the deque returned is the one the store holds.                          *)
MovingAverageDetector_append(windows, sensor_id, window_size, value) ==
    LET got == MovingAverageDetector_get_or_create_window(windows, sensor_id, window_size)
    IN  [got EXCEPT ![sensor_id] = deque_append(got[sensor_id], value)]

(* A failure return reached only after the sensor's window was looked up   *)
(* (and so created or rebuilt).                                            *)
MovingAverageDetector_failure_AfterLookup(windows, context, flowfile, error) ==
    [result |-> Failure(error),
     windows |->
        IF Truthy(flowfile.sensor_id) /\ Hashable(flowfile.sensor_id)
        THEN MovingAverageDetector_get_or_create_window(windows,
                flowfile.sensor_id, context.window_size)
        ELSE windows]

(* The failure returns of transform: all of them precede the lookup of the *)
(* sensor's window.                                                        *)
MovingAverageDetector_failure(windows, context, flowfile, error) ==
    [result |-> Failure(error), windows |-> windows]

(* transform(context, flowfile) at wall-clock time `now`: what it returns  *)
(* and the store it leaves.                                                *)
MovingAverageDetector_transform(windows, context, flowfile, now) ==
    LET keep(r) == [result |-> r, windows |-> windows]
        fail(error) == MovingAverageDetector_failure(windows, context, flowfile, error)
    IN
    IF flowfile.content = "invalid_utf8" THEN keep(Raised("UnicodeDecodeError"))
    ELSE IF flowfile.content = "invalid_json" THEN fail("JSON parse error")
    ELSE IF flowfile.content = "non_object" THEN keep(Raised("AttributeError"))
    ELSE IF ~Truthy(flowfile.sensor_id) THEN fail("Missing 'sensor_id' field")
    ELSE IF IsNone(flowfile.value) THEN fail("Missing 'value' field")
    ELSE IF ~FloatOk(flowfile.value) THEN fail("Non-numeric value")
    ELSE IF ~Hashable(flowfile.sensor_id) THEN keep(Raised("TypeError"))
    ELSE
        LET value == Float(flowfile.value)
            after == MovingAverageDetector_append(windows, flowfile.sensor_id,
                        context.window_size, value)
            window == after[flowfile.sensor_id]
        IN  [result |->
                MovingAverageDetector_success(flowfile,
                    MovingAverageDetector_analyze(value, window,
                        context.deviation_threshold, context.window_size),
                    window, context.window_size, now),
             windows |-> after]

RECURSIVE TotalReadings(_)
TotalReadings(history) ==
    IF DOMAIN history = {} THEN 0
    ELSE LET k == CHOOSE k \in DOMAIN history : TRUE
         IN  Len(history[k])
             + TotalReadings([j \in DOMAIN history \ {k} |-> history[j]])

(* One call of transform, at one of the wall-clock times `times`. The call *)
(* record keeps, as a ghost, the capacity and length the sensor's window    *)
(* had when the call began.                                                 *)
MA_EvaluateAt(flowfiles, limit, times) ==
    \E flowfile \in flowfiles, now \in times :
        LET out == MovingAverageDetector_transform(_sensor_windows, ma_context,
                        flowfile, now)
            sid == flowfile.sensor_id
        IN  /\ now >= clock
            /\ out.result.relationship = "success" =>
                    TotalReadings(ma_history) < limit
            /\ clock' = now
            /\ call' = [detector |-> "MovingAverageDetector", context |-> ma_context,
                        flowfile |-> flowfile,
                        previous |->
                            IF sid \in DOMAIN _sensor_windows
                            THEN Some([maxlen |-> _sensor_windows[sid].maxlen,
                                       count |-> Len(_sensor_windows[sid].items)])
                            ELSE None]
            /\ result' = out.result
            /\ _sensor_windows' = out.windows
            /\ IF out.result.relationship = "success"
               THEN /\ ma_history' = Put(ma_history, sid,
                            Append(IF sid \in DOMAIN ma_history
                                   THEN ma_history[sid] ELSE << >>,
                                   Float(flowfile.value)))
                    /\ ma_fixed' = Put(ma_fixed, sid,
                            \/ sid \notin DOMAIN ma_fixed
                            \/ /\ ma_fixed[sid]
                               /\ _sensor_windows[sid].maxlen = ma_context.window_size)
               ELSE UNCHANGED << ma_history, ma_fixed >>
            /\ UNCHANGED << contexts, _sensor_states, concurrency >>

MA_Evaluate(flowfiles, limit) == MA_EvaluateAt(flowfiles, limit, Clocks)

(* Every sequence of readings, under the small window sizes. The detector  *)
(* reads the wall clock only to stamp detected_at: time stands still here. *)
MA_Transform ==
    /\ ma_context \in MAContexts
    /\ MA_EvaluateAt(MAFlowFiles, MaxReadings, {clock})

(* The operator reconfigures the processor between two calls.              *)
MA_SetProperties ==
    \E context \in MAContexts :
        /\ ma_context \in MAContexts
        /\ context # ma_context
        /\ ma_context' = context
        /\ UNCHANGED << call, result, clock, td_context, roc_context, ma_state,
                        _sensor_states, concurrency >>

(* Long streams of one sensor under the large window sizes: a constant     *)
(* stream of one value that, once broken, runs for MaxTail readings more.  *)
StreamValues == {100, 500}

MaxStream == 31

MaxTail == 2

StreamContexts ==
    [window_size : {10, 11, 50}, deviation_threshold : {2, 3}] \ MAContexts

StreamFlowFiles ==
    {FlowFile("object", S1, JNum(v), JAbsent, JAbsent) : v \in StreamValues}

(* The readings of the stream from the first that differs from its first.  *)
StreamTail(h) ==
    Cardinality({i \in 1..Len(h) : \E j \in 1..i : h[j] # h[1]})

MA_Stream ==
    /\ ma_context \in StreamContexts
    /\ S1 \in DOMAIN ma_history => StreamTail(ma_history[S1]) < MaxTail
    /\ MA_EvaluateAt(StreamFlowFiles, MaxStream, {clock})

(* The processor is deployed with a large window, before any reading.      *)
MA_StreamStart ==
    \E context \in StreamContexts :
        /\ ma_context \in MAContexts
        /\ DOMAIN _sensor_windows = {}
        /\ ma_context' = context
        /\ UNCHANGED << call, result, clock, td_context, roc_context, ma_state,
                        _sensor_states, concurrency >>

----------------------------------------------------------------------------
(* RateOfChangeDetector                                                    *)

(* Epoch milliseconds do not fit TLC's 32-bit integers: a timestamp is     *)
(* hi * 10^6 + lo, with 0 <= lo < 10^6.                                    *)
Million == 1000 * 1000

Big(hi, lo) == [hi |-> hi, lo |-> lo]

(* The wall clock reads ClockEpoch + clock milliseconds: a date in 2023.   *)
ClockEpoch == Big(1700 * 1000, 0)

WallClock(now) == Big(ClockEpoch.hi, ClockEpoch.lo + now)

(* ts_val < 1e12 *)
BelowEpochMs(ts) == ts.hi < Million

(* ts_val * 1000 *)
Times1000(ts) ==
    Big(ts.hi * 1000 + (ts.lo * 1000) \div Million, (ts.lo * 1000) % Million)

(* a - b in milliseconds, exact while the two are within 2000 * 10^6 ms of *)
(* each other and held at that distance beyond it: every time window of    *)
(* the model is far shorter.                                               *)
DeltaMs(a, b) ==
    LET dh == a.hi - b.hi
    IN  IF dh > 2000 THEN 2000 * Million
        ELSE IF dh < -2000 THEN -(2000 * Million)
        ELSE dh * Million + (a.lo - b.lo)

ROCValues == {0, 10, 20, 100}

MaxRates == {10, 20}

TimeWindows == {1, 60}

ROCContexts == [max_rate : MaxRates, time_window_seconds : TimeWindows]

(* int(float(ts)) of a decimal integer text, as a Big: the digits before   *)
(* the last six, and the last six.                                         *)
IntOfText(chars) ==
    LET negative == chars[1] = "-"
        body == IF negative THEN Tail(chars) ELSE chars
        cut  == Max(Len(body) - 6, 0)
        hi   == DigitsValue(SubSeq(body, 1, cut))
        lo   == DigitsValue(SubSeq(body, cut + 1, Len(body)))
    IN  IF negative THEN Big(-hi, -lo) ELSE Big(hi, lo)

(* _extract_timestamp(reading) at wall-clock time `now`.                   *)
RateOfChangeDetector_extract_timestamp(reading, now) ==
    LET ts == reading.timestamp IN
    IF IsNone(ts) THEN WallClock(now)
    ELSE IF ts.t = "number"
    THEN LET ts_val == Big(ts.hi, ts.n)      \* int(ts) drops the fraction
         IN  IF BelowEpochMs(ts_val) THEN Times1000(ts_val) ELSE ts_val
    ELSE IF ts.t = "string"
    THEN IF IsNumericText(ts.s) THEN IntOfText(ts.s)   \* returned as it is
         ELSE WallClock(now)
    ELSE WallClock(now)

SensorState(value, timestamp_ms) == [value |-> value, timestamp_ms |-> timestamp_ms]

(* self._sensor_states.get(sensor_id) that answers a missing sensor with a *)
(* zero reading at ClockEpoch.                                             *)
RateOfChangeDetector_previous_Zero(states, sensor_id) ==
    IF sensor_id \in DOMAIN states THEN Some(states[sensor_id])
    ELSE Some(SensorState(0, ClockEpoch))

(* previous = self._sensor_states.get(sensor_id)                           *)
RateOfChangeDetector_previous(states, sensor_id) ==
    IF sensor_id \in DOMAIN states THEN Some(states[sensor_id]) ELSE None

(* The time delta taken as a distance.                                     *)
TimeDelta_Abs(timestamp_ms, previous) ==
    Abs(DeltaMs(timestamp_ms, previous.timestamp_ms))

(* time_delta_ms = timestamp_ms - previous.timestamp_ms                    *)
TimeDelta(timestamp_ms, previous) == DeltaMs(timestamp_ms, previous.timestamp_ms)

(* A window that no gap exceeds.                                           *)
ExceedsWindow_Never(time_delta_ms, time_window_seconds) == FALSE

(* time_delta_seconds > time_window_seconds                                *)
ExceedsWindow(time_delta_ms, time_window_seconds) ==
    time_delta_ms > time_window_seconds * 1000

(* The comparison with >= in place of >.                                   *)
RateExceeds_OrEquals(value_delta, time_delta_ms, max_rate, factor) ==
    value_delta * 1000 >= factor * max_rate * time_delta_ms

(* rate > factor * max_rate, with rate = value_delta / (time_delta_ms / 1000) *)
RateExceeds(value_delta, time_delta_ms, max_rate, factor) ==
    value_delta * 1000 > factor * max_rate * time_delta_ms

Rate(value_delta, time_delta_ms) ==
    [num |-> value_delta * 1000, den |-> time_delta_ms]

RateZero == [num |-> 0, den |-> 1]

(* _analyze: (severity, is_spike, rate) from the stored previous state.    *)
RateOfChangeDetector_analyze(states, sensor_id, value, timestamp_ms, max_rate, time_window_seconds) ==
    IF RateOfChangeDetector_previous(states, sensor_id) = None
    THEN [severity |-> "NORMAL", is_spike |-> FALSE, rate |-> None,
          branch |-> "first_reading"]
    ELSE
        LET previous == RateOfChangeDetector_previous(states, sensor_id)[1]
            time_delta_ms == TimeDelta(timestamp_ms, previous)
            value_delta == Abs(value - previous.value)
        IN  IF time_delta_ms <= 0
            THEN [severity |-> "NORMAL", is_spike |-> FALSE, rate |-> None,
                  branch |-> "non_positive_delta"]
            ELSE IF ExceedsWindow(time_delta_ms, time_window_seconds)
            THEN [severity |-> "NORMAL", is_spike |-> FALSE, rate |-> None,
                  branch |-> "new_baseline"]
            ELSE IF RateExceeds(value_delta, time_delta_ms, max_rate, 2)
            THEN [severity |-> "CRITICAL", is_spike |-> TRUE,
                  rate |-> Some(Rate(value_delta, time_delta_ms)),
                  branch |-> "critical"]
            ELSE IF RateExceeds(value_delta, time_delta_ms, max_rate, 1)
            THEN [severity |-> "WARNING", is_spike |-> TRUE,
                  rate |-> Some(Rate(value_delta, time_delta_ms)),
                  branch |-> "warning"]
            ELSE [severity |-> "NORMAL", is_spike |-> FALSE,
                  rate |-> Some(Rate(value_delta, time_delta_ms)),
                  branch |-> "normal"]

RateOfChangeDetector_success(reading, a, max_rate, detected_at) ==
    LET rate_of_change ==
            [severity |-> a.severity, is_spike |-> a.is_spike, rate |-> a.rate,
             max_rate_threshold |-> max_rate, detected_at |-> detected_at,
             detector |-> "RateOfChangeDetector"]
    IN
    [relationship |-> "success",
     contents |->
        [reading |-> reading, rate_of_change |-> rate_of_change,
         record |-> json_dumps(reading, "rate_of_change", rate_of_change)],
     attributes |->
        [anomaly_severity |-> a.severity,
         anomaly_type |-> IF a.is_spike THEN "rate_of_change_spike" ELSE "none",
         anomaly_detected_at |-> Str(detected_at),
         anomaly_detector |-> "RateOfChangeDetector",
         roc_rate |-> IF a.rate # None THEN Str(a.rate[1]) ELSE Str(RateZero),
         roc_is_spike |-> IF a.is_spike THEN "true" ELSE "false",
         sensor_id |-> Echo(reading.sensor_id),
         platform_id |-> Echo(reading.platform_id)],
     branch |-> a.branch]

(* A store that holds the sensor of the latest reading and no other.       *)
RateOfChangeDetector_store_Only(states, sensor_id, value, timestamp_ms) ==
    sensor_id :> SensorState(value, timestamp_ms)

(* A store that keeps a sensor's first observation.                        *)
RateOfChangeDetector_store_KeepFirst(states, sensor_id, value, timestamp_ms) ==
    IF sensor_id \in DOMAIN states THEN states
    ELSE Put(states, sensor_id, SensorState(value, timestamp_ms))

(* self._sensor_states[sensor_id] = SensorState(value, timestamp_ms)       *)
RateOfChangeDetector_store(states, sensor_id, value, timestamp_ms) ==
    Put(states, sensor_id, SensorState(value, timestamp_ms))

(* transform(context, flowfile) at wall-clock time `now`: what it returns  *)
(* and the store it leaves.                                                *)
RateOfChangeDetector_transform(states, context, flowfile, now) ==
    LET keep(r) == [result |-> r, states |-> states] IN
    IF flowfile.content = "invalid_utf8" THEN keep(Raised("UnicodeDecodeError"))
    ELSE IF flowfile.content = "invalid_json" THEN keep(Failure("JSON parse error"))
    ELSE IF flowfile.content = "non_object" THEN keep(Raised("AttributeError"))
    ELSE IF ~Truthy(flowfile.sensor_id) THEN keep(Failure("Missing 'sensor_id' field"))
    ELSE IF IsNone(flowfile.value) THEN keep(Failure("Missing 'value' field"))
    ELSE IF ~FloatOk(flowfile.value) THEN keep(Failure("Non-numeric value"))
    ELSE IF ~Hashable(flowfile.sensor_id) THEN keep(Raised("TypeError"))
    ELSE
        LET value == Float(flowfile.value)
            current_timestamp_ms == RateOfChangeDetector_extract_timestamp(flowfile, now)
        IN  [result |->
                RateOfChangeDetector_success(flowfile,
                    RateOfChangeDetector_analyze(states, flowfile.sensor_id, value,
                        current_timestamp_ms, context.max_rate,
                        context.time_window_seconds),
                    context.max_rate, now),
             states |-> RateOfChangeDetector_store(states, flowfile.sensor_id,
                            value, current_timestamp_ms)]

(* One call of transform. The call record keeps, as a ghost, the state the *)
(* sensor had in the store when the call began.                            *)
ROC_EvaluateAt(flowfiles, times) ==
    \E flowfile \in flowfiles, now \in times :
        LET out == RateOfChangeDetector_transform(_sensor_states, roc_context,
                        flowfile, now)
        IN  /\ now >= clock
            /\ clock' = now
            /\ call' = [detector |-> "RateOfChangeDetector", context |-> roc_context,
                        flowfile |-> flowfile,
                        previous |->
                            IF flowfile.sensor_id \in DOMAIN _sensor_states
                            THEN Some(_sensor_states[flowfile.sensor_id])
                            ELSE None]
            /\ result' = out.result
            /\ _sensor_states' = out.states
            /\ UNCHANGED << contexts, ma_state, concurrency >>

ROC_Evaluate(flowfiles) == ROC_EvaluateAt(flowfiles, Clocks)

----------------------------------------------------------------------------
(* Concurrent calls of transform on one detector instance.  Neither        *)
(* detector takes a lock.  Under the interpreter lock a thread can be      *)
(* suspended between any two accesses to shared data, so each access to    *)
(* the store (or to a deque another thread can reach) is a step of its     *)
(* own; what a thread computes on its locals goes with the access before.  *)
(* Each thread makes one call.                                             *)

ThreadIds == {1, 2}

Idle == [pc |-> "idle"]

AllDone == \A t \in ThreadIds : threads[t].pc = "done"

sequential == << call, result, clock, contexts, ma_history, ma_fixed >>

(* RateOfChangeDetector: readings of S1 one and two seconds after          *)
(* ClockEpoch, and one of S2.                                              *)
ROCThreadFlowFiles ==
    {FlowFile("object", S1, JNum(v), JAbsent, ts) :
        v \in {0, 100}, ts \in {JBig(1700, 1), JBig(1700, 2)}}
        \cup {FlowFile("object", S2, JNum(100), JAbsent, JBig(1700, 1))}

(* transform up to the call of _analyze: all on locals.                    *)
ROCT_Begin(t) ==
    /\ threads[t].pc = "idle"
    /\ \E flowfile \in ROCThreadFlowFiles :
            threads' = [threads EXCEPT ![t] =
                [pc |-> "analyze", flowfile |-> flowfile,
                 value |-> Float(flowfile.value),
                 timestamp_ms |->
                    RateOfChangeDetector_extract_timestamp(flowfile, clock)]]
    /\ UNCHANGED << sequential, _sensor_windows, _sensor_states, heap, base >>

(* _analyze: the read of self._sensor_states and the classification.       *)
ROCT_Analyze(t) ==
    /\ threads[t].pc = "analyze"
    /\ threads' = [threads EXCEPT ![t] =
            [pc |-> "store", flowfile |-> threads[t].flowfile,
             value |-> threads[t].value, timestamp_ms |-> threads[t].timestamp_ms,
             analysis |->
                RateOfChangeDetector_analyze(_sensor_states,
                    threads[t].flowfile.sensor_id, threads[t].value,
                    threads[t].timestamp_ms, roc_context.max_rate,
                    roc_context.time_window_seconds)]]
    /\ UNCHANGED << sequential, _sensor_windows, _sensor_states, heap, base >>

(* The write of self._sensor_states[sensor_id], and the return.            *)
ROCT_Store(t) ==
    /\ threads[t].pc = "store"
    /\ _sensor_states' =
            RateOfChangeDetector_store(_sensor_states, threads[t].flowfile.sensor_id,
                threads[t].value, threads[t].timestamp_ms)
    /\ threads' = [threads EXCEPT ![t] =
            [pc |-> "done", flowfile |-> threads[t].flowfile,
             result |->
                RateOfChangeDetector_success(threads[t].flowfile,
                    threads[t].analysis, roc_context.max_rate, clock)]]
    /\ UNCHANGED << sequential, _sensor_windows, heap, base >>

(* MovingAverageDetector.  self._sensor_windows holds references to deque  *)
(* objects: here _sensor_windows[sensor_id] is a reference and heap gives  *)
(* the deque it refers to.  Reference 0 is the deque the store held before *)
(* the calls; thread t names the deque it creates t.                       *)
MAThreadFlowFiles ==
    {FlowFile("object", S1, JNum(v), JAbsent, JAbsent) : v \in {1, 2}}
        \cup {FlowFile("object", S2, JNum(1), JAbsent, JAbsent)}

(* transform up to the call of _get_or_create_window: all on locals.       *)
MAT_Begin(t) ==
    /\ threads[t].pc = "idle"
    /\ \E flowfile \in MAThreadFlowFiles :
            threads' = [threads EXCEPT ![t] =
                [pc |-> "get", flowfile |-> flowfile,
                 value |-> Float(flowfile.value), window |-> 0]]
    /\ UNCHANGED << sequential, _sensor_windows, _sensor_states, heap, base >>

(* existing = self._sensor_windows.get(sensor_id), and the tests on it:    *)
(* return it, or go on to rebuild it, or make an empty deque.              *)
MAT_Get(t) ==
    LET sid == threads[t].flowfile.sensor_id
        found == sid \in DOMAIN _sensor_windows
        at(pc, window) == [threads EXCEPT ![t] =
            [pc |-> pc, flowfile |-> threads[t].flowfile,
             value |-> threads[t].value, window |-> window]]
    IN  /\ threads[t].pc = "get"
        /\ IF found /\ heap[_sensor_windows[sid]].maxlen = ma_context.window_size
           THEN /\ threads' = at("append", _sensor_windows[sid])
                /\ heap' = heap
           ELSE IF found
           THEN /\ threads' = at("rebuild", _sensor_windows[sid])
                /\ heap' = heap
           ELSE /\ threads' = at("store", t)
                /\ heap' = Put(heap, t, deque(<< >>, ma_context.window_size))
        /\ UNCHANGED << sequential, _sensor_windows, _sensor_states, base >>

(* new_window = deque(existing, maxlen=window_size)                        *)
MAT_Rebuild(t) ==
    /\ threads[t].pc = "rebuild"
    /\ heap' = Put(heap, t,
            deque(heap[threads[t].window].items, ma_context.window_size))
    /\ threads' = [threads EXCEPT ![t] =
            [pc |-> "store", flowfile |-> threads[t].flowfile,
             value |-> threads[t].value, window |-> t]]
    /\ UNCHANGED << sequential, _sensor_windows, _sensor_states, base >>

(* self._sensor_windows[sensor_id] = new_window                            *)
MAT_Store(t) ==
    /\ threads[t].pc = "store"
    /\ _sensor_windows' =
            Put(_sensor_windows, threads[t].flowfile.sensor_id, threads[t].window)
    /\ threads' = [threads EXCEPT ![t] =
            [pc |-> "append", flowfile |-> threads[t].flowfile,
             value |-> threads[t].value, window |-> threads[t].window]]
    /\ UNCHANGED << sequential, _sensor_states, heap, base >>

(* window.append(value)                                                    *)
MAT_Append(t) ==
    /\ threads[t].pc = "append"
    /\ heap' = [heap EXCEPT ![threads[t].window] = deque_append(@, threads[t].value)]
    /\ threads' = [threads EXCEPT ![t] =
            [pc |-> "analyze", flowfile |-> threads[t].flowfile,
             value |-> threads[t].value, window |-> threads[t].window]]
    /\ UNCHANGED << sequential, _sensor_windows, _sensor_states, base >>

(* _analyze(window): the read of the deque, and the return.                *)
MAT_Analyze(t) ==
    /\ threads[t].pc = "analyze"
    /\ threads' = [threads EXCEPT ![t] =
            [pc |-> "done", flowfile |-> threads[t].flowfile,
             result |->
                MovingAverageDetector_success(threads[t].flowfile,
                    MovingAverageDetector_analyze(threads[t].value,
                        heap[threads[t].window], ma_context.deviation_threshold,
                        ma_context.window_size),
                    heap[threads[t].window], ma_context.window_size, clock)]]
    /\ UNCHANGED << sequential, _sensor_windows, _sensor_states, heap, base >>

----------------------------------------------------------------------------
(* The three detectors side by side, fed every class of input.             *)

MA_TransformAny == MA_Evaluate(AnyFlowFiles, MaxAnyReadings)

ROC_TransformAny == ROC_Evaluate(AnyFlowFiles)

Init ==
    /\ call = [detector |-> "none"]
    /\ result = NoResult
    /\ clock = 0
    /\ td_context = [critical_high |-> 3, warning_high |-> 3,
                     critical_low |-> 1, warning_low |-> 1]
    /\ ma_context = [window_size |-> 5, deviation_threshold |-> 2]
    /\ roc_context = [max_rate |-> 10, time_window_seconds |-> 60]
    /\ _sensor_windows = << >>
    /\ _sensor_states = << >>
    /\ ma_history = << >>
    /\ ma_fixed = << >>
    /\ threads = [t \in ThreadIds |-> Idle]
    /\ heap = << >>
    /\ base = << >>

TD_TransformAny == TD_Evaluate(AnyFlowFiles)

Next == TD_TransformAny \/ MA_TransformAny \/ ROC_TransformAny

Spec == Init /\ [][Next]_vars

(* The three detectors on readings that carry fields none of them reads:   *)
(* a reading_id, or the object an earlier pass through a detector added.   *)
PassthroughFields ==
    {<< >>, "reading_id" :> JStr(<< "r", "1" >>), "anomaly" :> JObject,
     "moving_average" :> JObject, "rate_of_change" :> JObject}

PassthroughFlowFiles ==
    {[FlowFile("object", S1, v, P1, JAbsent) EXCEPT !.other = o] :
        v \in {JNum(1), JStr(<< "2" >>)}, o \in PassthroughFields}

TD_Passthrough == TD_Evaluate(PassthroughFlowFiles)

MA_Passthrough == MA_Evaluate(PassthroughFlowFiles, MaxAnyReadings)

ROC_Passthrough == ROC_Evaluate(PassthroughFlowFiles)

PassthroughNext == TD_Passthrough \/ MA_Passthrough \/ ROC_Passthrough

SpecPassthrough == Init /\ [][PassthroughNext]_vars

(* The three detectors configured so that each reaches every severity:     *)
(* low and high bounds apart, a five-reading window with threshold 1, and  *)
(* readings of one sensor a second apart next to a second sensor that      *)
(* carries no timestamp; and a reading whose value is not a number.        *)
(* The readings the moving average is given here: the window filled once. *)
MaxOutcomeReadings == 5

NotANumber == FlowFile("object", S1, JStr(<< "a", "b", "c" >>), JAbsent, JAbsent)

InitOutcomes ==
    /\ call = [detector |-> "none"]
    /\ result = NoResult
    /\ clock = 0
    /\ td_context = [critical_high |-> MaxValue + 1, warning_high |-> MaxValue,
                     critical_low |-> 0, warning_low |-> 1]
    /\ ma_context = [window_size |-> 5, deviation_threshold |-> 1]
    /\ roc_context = [max_rate |-> 10, time_window_seconds |-> 60]
    /\ _sensor_windows = << >>
    /\ _sensor_states = << >>
    /\ ma_history = << >>
    /\ ma_fixed = << >>
    /\ threads = [t \in ThreadIds |-> Idle]
    /\ heap = << >>
    /\ base = << >>

TD_Outcomes ==
    TD_EvaluateAt({FlowFile("object", S1, JNum(v), P1, JAbsent) : v \in Values}
                      \cup {NotANumber},
                  {clock})

MA_Outcomes ==
    MA_EvaluateAt({FlowFile("object", S1, JNum(v), JAbsent, JAbsent) : v \in MAValues}
                      \cup {FlowFile("object", S2, JNum(1), JAbsent, JAbsent),
                            NotANumber},
                  MaxOutcomeReadings, {clock})

ROC_Outcomes ==
    \/ ROC_EvaluateAt({FlowFile("object", S1, JNum(v), JAbsent, ts) :
                          v \in {0, 20, 100}, ts \in {JBig(1700, 0), JBig(1700, 1)}}
                          \cup {NotANumber},
                      {clock})
    \/ ROC_EvaluateAt({FlowFile("object", S2, JNum(0), JAbsent, JAbsent)}, Clocks)

OutcomesNext == TD_Outcomes \/ MA_Outcomes \/ ROC_Outcomes

SpecOutcomes == InitOutcomes /\ [][OutcomesNext]_vars

(* MovingAverageDetector on windows of five readings and fewer; the        *)
(* threshold is the largest deviation a window of five can hold, or is     *)
(* above it. The operator changes the window size between two calls.       *)
BoundValues == {10, 11}

BoundContexts == [window_size : 1..5, deviation_threshold : {2, 3}]

InitBound ==
    /\ call = [detector |-> "none"]
    /\ result = NoResult
    /\ clock = 0
    /\ td_context = [critical_high |-> 3, warning_high |-> 3,
                     critical_low |-> 1, warning_low |-> 1]
    /\ ma_context \in BoundContexts
    /\ roc_context = [max_rate |-> 10, time_window_seconds |-> 60]
    /\ _sensor_windows = << >>
    /\ _sensor_states = << >>
    /\ ma_history = << >>
    /\ ma_fixed = << >>
    /\ threads = [t \in ThreadIds |-> Idle]
    /\ heap = << >>
    /\ base = << >>

MA_Bound ==
    MA_EvaluateAt({FlowFile("object", S1, JNum(v), JAbsent, JAbsent) :
                      v \in BoundValues},
                  MaxReadings, {clock})

MA_BoundSetProperties ==
    \E window_size \in 1..5 :
        /\ window_size # ma_context.window_size
        /\ ma_context' = [ma_context EXCEPT !.window_size = window_size]
        /\ UNCHANGED << call, result, clock, td_context, roc_context, ma_state,
                        _sensor_states, concurrency >>

BoundNext == MA_Bound \/ MA_BoundSetProperties

SpecDeviationBound == InitBound /\ [][BoundNext]_vars

ThresholdNext == TD_Transform \/ TD_SetProperties

SpecThreshold == Init /\ [][ThresholdNext]_vars

MovingAverageNext == MA_Transform \/ MA_SetProperties \/ MA_StreamStart \/ MA_Stream

SpecMovingAverage == Init /\ [][MovingAverageNext]_vars

(* RateOfChangeDetector alone: one sensor with every value and timestamp,  *)
(* a second sensor, a reading that fails, and reconfiguration.             *)
(* Timestamps, with s0 = 1 700 000 000 s (the instant ClockEpoch):         *)
(* none, s0, s0 + 1, s0 + 120 as epoch seconds, s0 + 0.5 as a float, and   *)
(* s0 + 0.5 s as epoch milliseconds.                                       *)
ROCTimestamps ==
    {JAbsent, JBig(1700, 0), JBig(1700, 1), JBig(1700, 120),
     JFrac(1700, 0, 500), JBig(1700 * 1000, 500)}

(* The same instants as numeric strings: "1700000001" (epoch seconds) and  *)
(* "1700000000500" (epoch milliseconds).                                   *)
ROCTextTimestamps ==
    {JStr(<< "1", "7", "0", "0", "0", "0", "0", "0", "0", "1" >>),
     JStr(<< "1", "7", "0", "0", "0", "0", "0", "0", "0", "0", "5", "0", "0" >>)}

ROCFlowFiles ==
    {FlowFile("object", S1, JNum(v), JAbsent, ts) :
        v \in ROCValues, ts \in ROCTimestamps}
        \cup {FlowFile("object", S1, JNum(v), JAbsent, ts) :
                 v \in {0, 100}, ts \in ROCTextTimestamps}
        \cup {FlowFile("object", S2, JNum(0), JAbsent, JAbsent),
              FlowFile("object", S1, JNull, JAbsent, JBig(1700, 1))}

(* The detector reads the wall clock for a reading without a timestamp,   *)
(* and otherwise only to stamp detected_at: time advances with the         *)
(* readings that have none.                                                *)
ROC_Transform ==
    \/ ROC_EvaluateAt({ff \in ROCFlowFiles : ff.timestamp = JAbsent}, Clocks)
    \/ ROC_EvaluateAt({ff \in ROCFlowFiles : ff.timestamp # JAbsent}, {clock})

(* The operator reconfigures the processor between two calls.              *)
ROC_SetProperties ==
    \E context \in ROCContexts :
        /\ context # roc_context
        /\ roc_context' = context
        /\ UNCHANGED << call, result, clock, td_context, ma_context, ma_state,
                        _sensor_states, concurrency >>

RateOfChangeNext == ROC_Transform \/ ROC_SetProperties

SpecRateOfChange == Init /\ [][RateOfChangeNext]_vars

(* What holds of every variable the concurrent calls leave alone.          *)
InitThreads ==
    /\ call = [detector |-> "none"]
    /\ result = NoResult
    /\ clock = 0
    /\ td_context = [critical_high |-> 3, warning_high |-> 3,
                     critical_low |-> 1, warning_low |-> 1]
    /\ ma_history = << >>
    /\ ma_fixed = << >>
    /\ threads = [t \in ThreadIds |-> Idle]

(* Two threads in RateOfChangeDetector.transform; S1 is new to the store,  *)
(* or was last seen with value 0 at ClockEpoch.                            *)
ROCBases == {<< >>, Put(<< >>, S1, SensorState(0, ClockEpoch))}

InitRateOfChangeThreads ==
    /\ InitThreads
    /\ ma_context = [window_size |-> 5, deviation_threshold |-> 2]
    /\ roc_context \in ROCContexts
    /\ _sensor_windows = << >>
    /\ heap = << >>
    /\ base \in ROCBases
    /\ _sensor_states = base

RateOfChangeThreadsNext ==
    \E t \in ThreadIds : ROCT_Begin(t) \/ ROCT_Analyze(t) \/ ROCT_Store(t)

SpecRateOfChangeThreads ==
    InitRateOfChangeThreads /\ [][RateOfChangeThreadsNext]_vars

(* Two threads in MovingAverageDetector.transform; S1 is new to the store, *)
(* or has a window of capacity 5 holding three values.                     *)
MABases == {<< >>, Put(<< >>, S1, deque(<< 1, 2, 1 >>, 5))}

InitMovingAverageThreads ==
    /\ InitThreads
    /\ roc_context = [max_rate |-> 10, time_window_seconds |-> 60]
    /\ ma_context \in [window_size : {2, 5}, deviation_threshold : {2}]
    /\ _sensor_states = << >>
    /\ base \in MABases
    /\ _sensor_windows = [sid \in DOMAIN base |-> 0]
    /\ heap = IF base = << >> THEN << >> ELSE Put(<< >>, 0, base[S1])

MovingAverageThreadsNext ==
    \E t \in ThreadIds :
        \/ MAT_Begin(t) \/ MAT_Get(t) \/ MAT_Rebuild(t)
        \/ MAT_Store(t) \/ MAT_Append(t) \/ MAT_Analyze(t)

SpecMovingAverageThreads ==
    InitMovingAverageThreads /\ [][MovingAverageThreadsNext]_vars

----------------------------------------------------------------------------
(* Claims about ThresholdDetector (SpecThreshold)                          *)

TDSuccess == call.detector = "ThresholdDetector" /\ result.relationship = "success"

TDValue == Float(call.flowfile.value)

(* C1: the severity follows the order critical-high, critical-low,         *)
(* warning-high, warning-low, else NORMAL, the first matching test         *)
(* deciding; so value >= critical_high gives CRITICAL whatever the other   *)
(* three bounds are.                                                       *)
C1_CriticalHighPrecedence ==
    TDSuccess =>
        LET v == TDValue
            c == call.context
            severity == result.contents.anomaly.severity
        IN  /\ v >= c.critical_high => severity = "CRITICAL"
            /\ severity =
                  IF v >= c.critical_high \/ v <= c.critical_low THEN "CRITICAL"
                  ELSE IF v >= c.warning_high \/ v <= c.warning_low THEN "WARNING"
                  ELSE "NORMAL"

(* A value at or above a critical-high bound that lies below the           *)
(* warning-high bound it also reaches.                                     *)
C1_Witness ==
    /\ TDSuccess
    /\ TDValue >= call.context.critical_high
    /\ TDValue >= call.context.warning_high
    /\ call.context.warning_high > call.context.critical_high
    /\ result.contents.anomaly.severity = "CRITICAL"

(* C2: on WARNING or CRITICAL threshold_value is the bound of the first    *)
(* test that matched in the evaluation order; on NORMAL it is null.        *)
C2_ThresholdValueIsMatchedBound ==
    TDSuccess =>
        LET v == TDValue
            c == call.context
            anomaly == result.contents.anomaly
        IN  /\ anomaly.threshold_value =
                  IF v >= c.critical_high THEN Some(c.critical_high)
                  ELSE IF v <= c.critical_low THEN Some(c.critical_low)
                  ELSE IF v >= c.warning_high THEN Some(c.warning_high)
                  ELSE IF v <= c.warning_low THEN Some(c.warning_low)
                  ELSE None
            /\ anomaly.severity = "NORMAL" <=> anomaly.threshold_value = None

(* A value under both low bounds, which differ: the critical one is        *)
(* reported.                                                               *)
C2_Witness ==
    /\ TDSuccess
    /\ TDValue < call.context.critical_high
    /\ TDValue <= call.context.critical_low
    /\ TDValue <= call.context.warning_low
    /\ call.context.critical_low # call.context.warning_low
    /\ result.contents.anomaly.threshold_value = Some(call.context.critical_low)

NoSensorIdNumericValue ==
    /\ call.detector = "ThresholdDetector"
    /\ call.flowfile.content = "object"
    /\ IsNone(call.flowfile.sensor_id)
    /\ FloatOk(call.flowfile.value)

----------------------------------------------------------------------------
(* Claims about the three detectors on malformed input (Spec)              *)

StatefulDetectors == {"MovingAverageDetector", "RateOfChangeDetector"}

ParseFailure == call.flowfile.content = "invalid_json"

SchemaOrTypeFailure ==
    /\ call.flowfile.content = "object"
    /\ \/ IsNone(call.flowfile.value)
       \/ ~FloatOk(call.flowfile.value)
       \/ call.detector \in StatefulDetectors /\ IsNone(call.flowfile.sensor_id)

C4_NeverRaises == result.relationship # "raised"

(* C5: a FAILURE outcome of MovingAverageDetector or RateOfChangeDetector   *)
(* leaves both per-sensor stores exactly as they were before the call.     *)
C5_FailureLeavesStoresUnchanged ==
    [][call'.detector \in StatefulDetectors /\ result'.relationship = "failure" =>
            /\ _sensor_windows' = _sensor_windows
            /\ _sensor_states' = _sensor_states]_vars

(* value = "abc" for a sensor the store does not know yet, while another   *)
(* sensor holds a window.                                                  *)
C5_Witness ==
    /\ call.detector = "MovingAverageDetector"
    /\ result.relationship = "failure"
    /\ call.flowfile.sensor_id = S1
    /\ call.flowfile.value = JStr(<< "a", "b", "c" >>)
    /\ DOMAIN _sensor_windows = {S2}
    /\ _sensor_windows[S2].items # << >>
    /\ DOMAIN _sensor_states # {}

----------------------------------------------------------------------------
(* Claims about MovingAverageDetector (SpecMovingAverage)                  *)

MASuccess == call.detector = "MovingAverageDetector" /\ result.relationship = "success"

MASensor == call.flowfile.sensor_id

MAOutcome == result.contents.moving_average

(* C7 as claimed: every stored window is no longer than the window size    *)
(* configured now.                                                         *)
C7_WindowWithinConfiguredSize ==
    \A sid \in DOMAIN _sensor_windows :
        Len(_sensor_windows[sid].items) <= ma_context.window_size

(* C7 as amended: every stored window is no longer than its own capacity,  *)
(* and the window of the sensor just evaluated has the capacity and at     *)
(* most the length of the window size that call ran under.                 *)
C7_WindowWithinOwnCapacity ==
    /\ \A sid \in DOMAIN _sensor_windows :
            Len(_sensor_windows[sid].items) <= _sensor_windows[sid].maxlen
    /\ MASuccess =>
            /\ _sensor_windows[MASensor].maxlen = call.context.window_size
            /\ Len(_sensor_windows[MASensor].items) <= call.context.window_size

(* S1 was just evaluated under a smaller window size and its window was    *)
(* cut to it, while S2's window, not evaluated since, is still longer.     *)
C7_Witness ==
    /\ MASuccess
    /\ MASensor = S1
    /\ ~ma_fixed[S1]
    /\ Len(_sensor_windows[S1].items) = call.context.window_size
    /\ ma_context = call.context
    /\ S2 \in DOMAIN _sensor_windows
    /\ Len(_sensor_windows[S2].items) > ma_context.window_size

(* C8: every successful evaluation puts the value at the newest end of the *)
(* sensor's window, and under a fixed window size W the window is exactly  *)
(* the last min(k, W) of the sensor's k successful values, in order.       *)
C8_WindowIsFifo ==
    /\ MASuccess =>
            LET items == _sensor_windows[MASensor].items
            IN  /\ items # << >>
                /\ items[Len(items)] = Float(call.flowfile.value)
    /\ \A sid \in DOMAIN _sensor_windows :
            ma_fixed[sid] =>
                LET h == ma_history[sid]
                    k == Len(h)
                    m == Min(k, _sensor_windows[sid].maxlen)
                    items == _sensor_windows[sid].items
                IN  /\ Len(items) = m
                    /\ \A i \in 1..m : items[i] = h[k - m + i]

(* A full window that has evicted its oldest value and holds two different *)
(* values.                                                                 *)
C8_Witness ==
    /\ MASuccess
    /\ ma_fixed[MASensor]
    /\ Len(ma_history[MASensor]) > _sensor_windows[MASensor].maxlen
    /\ ma_history[MASensor][1] # _sensor_windows[MASensor].items[1]
    /\ \E i \in 1..Len(_sensor_windows[MASensor].items) :
            _sensor_windows[MASensor].items[i] # _sensor_windows[MASensor].items[1]

C10_ConstantBaselineBroken ==
    MASuccess =>
        LET h == ma_history[MASensor]
            k == Len(h)
            W == call.context.window_size
        IN  /\ ma_fixed[MASensor]
            /\ k >= 2
            /\ Min(k - 1, W) >= Max(5, W \div 2)
            /\ \A i \in 1..(k - 1) : h[i] = h[1]
            /\ h[k] # h[1]
            => /\ MAOutcome.severity = "CRITICAL"
               /\ MAOutcome.deviation = Some(DeviationInf)

(* C11: past warm-up and with a standard deviation above zero, the mean    *)
(* and the standard deviation are the population ones (divisor = count) of *)
(* the window that already holds the new value, deviation is               *)
(* |value - mean| / stddev, and the severity is CRITICAL iff deviation >   *)
(* 1.5 T, WARNING iff T < deviation <= 1.5 T, NORMAL iff deviation <= T.   *)
(* With n, S, Q the count, sum and sum of squares of the window:           *)
(* deviation^2 = (n v - S)^2 / (n Q - S^2).                                *)
C11_PopulationDeviationClassified ==
    MASuccess =>
        LET items == _sensor_windows[MASensor].items
            n == Len(items)
            S == SeqSum(items)
            Q == SeqSumSq(items)
            v == Float(call.flowfile.value)
            T == call.context.deviation_threshold
            var == n * Q - S * S
            dev == (n * v - S) * (n * v - S)
        IN  /\ n = MAOutcome.window_count
            /\ items[n] = v
            /\ MAOutcome.mean = [sum |-> S, count |-> n]
            /\ MAOutcome.stddev = [var_num |-> var, count |-> n]
            /\ n >= Max(5, call.context.window_size \div 2) /\ var > 0 =>
                    /\ MAOutcome.deviation =
                          Some([kind |-> "ratio", sq_num |-> dev, sq_den |-> var])
                    /\ MAOutcome.severity = "CRITICAL" <=> 4 * dev > 9 * T * T * var
                    /\ MAOutcome.severity = "WARNING" <=>
                          dev > T * T * var /\ 4 * dev <= 9 * T * T * var
                    /\ MAOutcome.severity = "NORMAL" <=> dev <= T * T * var

(* A reading whose deviation is exactly 1.5 T: WARNING, not CRITICAL.      *)
C11_Witness ==
    /\ MASuccess
    /\ MAOutcome.window_count >= Max(5, call.context.window_size \div 2)
    /\ MAOutcome.stddev.var_num > 0
    /\ MAOutcome.deviation # None
    /\ 4 * MAOutcome.deviation[1].sq_num
          = 9 * call.context.deviation_threshold * call.context.deviation_threshold
              * MAOutcome.deviation[1].sq_den
    /\ MAOutcome.severity = "WARNING"

(* C12: an evaluation of a sensor whose window has capacity W1, under a    *)
(* window size W2 # W1, leaves a window of capacity W2 that is the last    *)
(* min(len, W2) values of the old window, in order, with the new value     *)
(* appended (and the oldest dropped if that overfills it).                 *)
C12_ResizeKeepsNewest ==
    [][call'.detector = "MovingAverageDetector" /\ result'.relationship = "success" =>
        LET sid == call'.flowfile.sensor_id
            W2 == call'.context.window_size
        IN  sid \in DOMAIN _sensor_windows /\ _sensor_windows[sid].maxlen # W2 =>
                LET old == _sensor_windows[sid].items
                    m == Min(Len(old), W2)
                    kept == [i \in 1..m |-> old[Len(old) - m + i]]
                    v == Float(call'.flowfile.value)
                IN  /\ _sensor_windows'[sid].maxlen = W2
                    /\ _sensor_windows'[sid].items =
                          IF m < W2 THEN Append(kept, v) ELSE Append(Tail(kept), v)
                    /\ result'.contents.moving_average.window_count =
                          Min(m + 1, W2)]_vars

(* A window of more values than the new, smaller window size holds, two of *)
(* them different: the evaluation cut it down to the new size.             *)
C12_Witness ==
    /\ MASuccess
    /\ call.previous # None
    /\ call.previous[1].maxlen > call.context.window_size
    /\ call.previous[1].count > call.context.window_size
    /\ _sensor_windows[MASensor].maxlen = call.context.window_size
    /\ Len(_sensor_windows[MASensor].items) = call.context.window_size
    /\ _sensor_windows[MASensor].items[1] # Float(call.flowfile.value)

----------------------------------------------------------------------------
(* Claims about RateOfChangeDetector (SpecRateOfChange)                    *)

ROCSuccess ==
    call.detector = "RateOfChangeDetector" /\ result.relationship = "success"

ROCSensor == call.flowfile.sensor_id

ROCOutcome == result.contents.rate_of_change

ROCValue == Float(call.flowfile.value)

(* The timestamp the latest call resolved: the call ran at wall-clock time *)
(* `clock`.                                                                *)
ROCResolved == RateOfChangeDetector_extract_timestamp(call.flowfile, clock)

(* Milliseconds from the sensor's previous observation to this reading.    *)
ROCTimeDelta == DeltaMs(ROCResolved, call.previous[1].timestamp_ms)

ROCValueDelta == Abs(ROCValue - call.previous[1].value)

ROCStoredIsReading ==
    _sensor_states[ROCSensor] = [value |-> ROCValue, timestamp_ms |-> ROCResolved]

(* C13: the first successful reading of a sensor without stored state is   *)
(* NORMAL with rate null and no spike, whatever its value and timestamp,   *)
(* and (value, timestamp) becomes the sensor's stored baseline.            *)
C13_FirstReadingIsBaseline ==
    ROCSuccess /\ call.previous = None =>
        /\ ROCOutcome.severity = "NORMAL"
        /\ ROCOutcome.rate = None
        /\ ROCOutcome.is_spike = FALSE
        /\ result.attributes.anomaly_severity = "NORMAL"
        /\ ROCStoredIsReading

(* The first reading of S1: value 100, stamped two minutes after ClockEpoch. *)
C13_Witness ==
    /\ ROCSuccess
    /\ call.previous = None
    /\ ROCValue = 100
    /\ call.flowfile.timestamp = JBig(1700, 120)
    /\ ROCOutcome.severity = "NORMAL"
    /\ _sensor_states[S1] = [value |-> 100, timestamp_ms |-> Big(1700 * 1000, 120 * 1000)]

(* C14: with a previous observation and 0 < dt <= time_window_seconds,     *)
(* rate = |value - previous value| / dt, and the reading is CRITICAL with  *)
(* is_spike iff rate > 2 max_rate, WARNING with is_spike iff max_rate <    *)
(* rate <= 2 max_rate, NORMAL without spike iff rate <= max_rate.  With dt *)
(* in milliseconds, rate > k iff 1000 |dv| > k dt.                         *)
C14_RateClassified ==
    ROCSuccess /\ call.previous # None =>
        LET dt == ROCTimeDelta
            dv == ROCValueDelta
            max_rate == call.context.max_rate
        IN  dt > 0 /\ dt <= call.context.time_window_seconds * 1000 =>
                /\ ROCOutcome.rate = Some([num |-> dv * 1000, den |-> dt])
                /\ ROCOutcome.severity = "CRITICAL" /\ ROCOutcome.is_spike
                        <=> dv * 1000 > 2 * max_rate * dt
                /\ ROCOutcome.severity = "WARNING" /\ ROCOutcome.is_spike
                        <=> /\ dv * 1000 > max_rate * dt
                            /\ dv * 1000 <= 2 * max_rate * dt
                /\ ROCOutcome.severity = "NORMAL" /\ ~ROCOutcome.is_spike
                        <=> dv * 1000 <= max_rate * dt
                /\ ROCOutcome.severity \in {"CRITICAL", "WARNING", "NORMAL"}

(* max_rate = 10, value 0 and then value 100 one second later: CRITICAL.   *)
C14_Witness ==
    /\ ROCSuccess
    /\ call.context.max_rate = 10
    /\ call.previous = Some([value |-> 0, timestamp_ms |-> Big(1700 * 1000, 0)])
    /\ ROCValue = 100
    /\ ROCResolved = Big(1700 * 1000, 1000)
    /\ ROCOutcome.severity = "CRITICAL"
    /\ ROCOutcome.is_spike
    /\ ROCOutcome.rate = Some([num |-> 100 * 1000, den |-> 1000])

(* C15: a reading stamped more than time_window_seconds after the sensor's *)
(* stored timestamp is NORMAL with rate null whatever the value delta, and *)
(* becomes the stored baseline.                                            *)
C15_StaleGapIsBaseline ==
    ROCSuccess /\ call.previous # None =>
        (ROCTimeDelta > call.context.time_window_seconds * 1000 =>
            /\ ROCOutcome.severity = "NORMAL"
            /\ ROCOutcome.rate = None
            /\ ROCOutcome.is_spike = FALSE
            /\ ROCStoredIsReading)

(* time_window_seconds = 60, value 0 and then value 100 two minutes later. *)
C15_Witness ==
    /\ ROCSuccess
    /\ call.context.time_window_seconds = 60
    /\ call.previous = Some([value |-> 0, timestamp_ms |-> Big(1700 * 1000, 0)])
    /\ ROCValue = 100
    /\ ROCResolved = Big(1700 * 1000, 120 * 1000)
    /\ ROCOutcome.severity = "NORMAL"
    /\ ROCOutcome.rate = None
    /\ ROCStoredIsReading

(* C16: a reading stamped at or before the sensor's stored timestamp       *)
(* (dt <= 0) is NORMAL with rate null, no rate being computed, and still   *)
(* replaces the stored (value, timestamp).                                 *)
C16_NonPositiveDeltaReplaces ==
    ROCSuccess /\ call.previous # None =>
        (ROCTimeDelta <= 0 =>
            /\ ROCOutcome.severity = "NORMAL"
            /\ ROCOutcome.rate = None
            /\ ROCOutcome.is_spike = FALSE
            /\ result.attributes.roc_rate = Str(RateZero)
            /\ ROCStoredIsReading)

(* A reading of another value stamped one second before the stored one.    *)
C16_Witness ==
    /\ ROCSuccess
    /\ call.previous = Some([value |-> 0, timestamp_ms |-> Big(1700 * 1000, 1000)])
    /\ ROCValue = 100
    /\ ROCResolved = Big(1700 * 1000, 0)
    /\ ROCOutcome.rate = None
    /\ _sensor_states[S1] = [value |-> 100, timestamp_ms |-> Big(1700 * 1000, 0)]

(* C17: every call of transform that succeeds leaves the store as it was   *)
(* but for the sensor's entry, which is exactly (value, resolved           *)
(* timestamp) of that reading, and its rate was computed against the entry *)
(* the store held before; every other call leaves the store untouched.  So *)
(* the stored pair is always that of the sensor's latest successful        *)
(* reading.                                                                *)
C17_StoreHoldsLatestReading ==
    [][roc_context' = roc_context =>
        IF call'.detector = "RateOfChangeDetector" /\ result'.relationship = "success"
        THEN LET sid == call'.flowfile.sensor_id
                 ts == RateOfChangeDetector_extract_timestamp(call'.flowfile, clock')
                 rate == result'.contents.rate_of_change.rate
             IN  /\ _sensor_states' =
                        [k \in DOMAIN _sensor_states \cup {sid} |->
                            IF k = sid
                            THEN [value |-> Float(call'.flowfile.value),
                                  timestamp_ms |-> ts]
                            ELSE _sensor_states[k]]
                 /\ rate # None =>
                        /\ sid \in DOMAIN _sensor_states
                        /\ rate[1].den = DeltaMs(ts, _sensor_states[sid].timestamp_ms)
                        /\ rate[1].num =
                              1000 * Abs(Float(call'.flowfile.value)
                                         - _sensor_states[sid].value)
        ELSE _sensor_states' = _sensor_states]_vars

(* After a CRITICAL spike the store holds the spiking reading, not the     *)
(* observation it was compared with, and S2's entry is still there.        *)
C17_Witness ==
    /\ ROCSuccess
    /\ ROCSensor = S1
    /\ ROCOutcome.severity = "CRITICAL"
    /\ call.previous # None
    /\ call.previous[1].value # ROCValue
    /\ ROCStoredIsReading
    /\ S2 \in DOMAIN _sensor_states

(* C20 as claimed: a JSON number t is resolved to t * 1000 when t < 10^12  *)
(* and to t otherwise, and an absent timestamp to the wall clock in epoch  *)
(* milliseconds.                                                           *)
C20_NumericTimestampScaled ==
    ROCSuccess =>
        LET ts == call.flowfile.timestamp
            scaled == Times1000(Big(ts.hi, ts.n))
        IN  /\ ts.t = "number" =>
                  _sensor_states[ROCSensor].timestamp_ms =
                      IF ts.hi < Million THEN Big(scaled.hi, scaled.lo + ts.f)
                      ELSE Big(ts.hi, ts.n)
            /\ ts.t = "absent" =>
                  _sensor_states[ROCSensor].timestamp_ms = WallClock(clock)

(* C21 as claimed: a timestamp given as a numeric string resolves to the   *)
(* epoch-millisecond value that the JSON number of the same value resolves *)
(* to (n * 1000 when n < 10^12, else n).                                   *)
C21_TextTimestampAsNumber ==
    ROCSuccess =>
        LET ts == call.flowfile.timestamp IN
        (ts.t = "string" /\ IsNumericText(ts.s)) =>
            LET n == IntOfText(ts.s)
                as_number == [call.flowfile EXCEPT !.timestamp = JBig(n.hi, n.lo)]
            IN  /\ _sensor_states[ROCSensor].timestamp_ms =
                       RateOfChangeDetector_extract_timestamp(as_number, clock)
                /\ _sensor_states[ROCSensor].timestamp_ms =
                       IF n.hi < Million THEN Times1000(n) ELSE n

----------------------------------------------------------------------------
(* The synthetic generator: patterns/signal.py.  Values are whole numbers; *)
(* the random draws of numpy are inputs of the call: the Gaussian noise in *)
(* units of noise_std, and the direction of a failure spike.               *)

SignalConfig(setpoint, noise_std, seasonal_amplitude, seasonal_period_hours) ==
    [setpoint |-> setpoint, noise_std |-> noise_std,
     seasonal_amplitude |-> seasonal_amplitude,
     seasonal_period_hours |-> seasonal_period_hours]

(* Three entries of SENSOR_CONFIGS, by (sensor type, subtype).             *)
SENSOR_CONFIGS ==
    (<< "TEMPERATURE", "discharge_temp" >> :> SignalConfig(160, 3, 5, 24))
    @@ (<< "FLOW_RATE", "oil_outlet_flow" >> :> SignalConfig(250, 15, 20, 12))
    @@ (<< "PRESSURE", "pump_discharge" >> :> SignalConfig(200, 5, 0, 24))

DEFAULT_CONFIG == SignalConfig(50, 5, 0, 24)

get_config(sensor) ==
    LET key == << sensor.sensor_type, sensor.subtype >>
    IN  IF key \in DOMAIN SENSOR_CONFIGS THEN SENSOR_CONFIGS[key] ELSE DEFAULT_CONFIG

(* math.sin(2 pi t / period) at the quarter periods, where it is 0, 1, 0,  *)
(* -1: the times of the model are whole quarter periods.                   *)
SinOfTurns(t_hours, period_hours) ==
    LET quarter == ((4 * t_hours) \div period_hours) % 4
    IN  CASE quarter = 0 -> 0 [] quarter = 1 -> 1 [] quarter = 2 -> 0 [] quarter = 3 -> -1

seasonal_component(config, t_hours) ==
    IF config.seasonal_amplitude = 0 THEN 0
    ELSE config.seasonal_amplitude * SinOfTurns(t_hours, config.seasonal_period_hours)

generate_normal(config, t_hours, noise) ==
    (config.setpoint + noise * config.noise_std) + seasonal_component(config, t_hours)

(* drift_rate = 0.5 *)
generate_degradation(config, t_hours, noise) ==
    generate_normal(config, t_hours, noise) + t_hours \div 2

(* spike_factor = 3.0 *)
generate_failure(config, upward) ==
    config.setpoint + (IF upward THEN 1 ELSE -1) * 3 * config.noise_std

generate_seasonal(config, t_hours) ==
    config.setpoint + seasonal_component(config, t_hours)

(* The value before it is clamped.                                         *)
generate_value(sensor, t_hours, pattern, noise, upward) ==
    LET config == get_config(sensor)
    IN  CASE pattern = "normal" -> generate_normal(config, t_hours, noise)
          [] pattern = "degradation" -> generate_degradation(config, t_hours, noise)
          [] pattern = "failure" -> generate_failure(config, upward)
          [] pattern = "seasonal" -> generate_seasonal(config, t_hours)
          [] OTHER -> generate_normal(config, t_hours, noise)

(* The clamp without its lower bound.                                      *)
clamp_UpperOnly(sensor, value) == Min(sensor.max_range, value)

(* max(sensor.min_range, min(sensor.max_range, value)) *)
clamp(sensor, value) == Max(sensor.min_range, Min(sensor.max_range, value))

generate_reading(sensor, t_hours, pattern, noise, upward) ==
    clamp(sensor, generate_value(sensor, t_hours, pattern, noise, upward))

(* The inputs: sensors of four kinds over ranges that hold the setpoint,   *)
(* lie beside it, are a single point, or are the wrong way round; times in *)
(* steps of six hours; the four patterns and a name that is none of them.  *)
MaxQuarters == 4

MaxNoise == 2

SensorKinds ==
    {<< "TEMPERATURE", "discharge_temp" >>, << "FLOW_RATE", "oil_outlet_flow" >>,
     << "PRESSURE", "pump_discharge" >>, << "VIBRATION", "unlisted" >>}

SensorRanges ==
    {<< 0, 250 >>, << 99, 101 >>, << 200, 200 >>, << 300, 400 >>, << 0, 40 >>,
     << 101, 99 >>}

Sensors ==
    {[sensor_type |-> kind[1], subtype |-> kind[2],
      min_range |-> range[1], max_range |-> range[2]] :
        kind \in SensorKinds, range \in SensorRanges}

Patterns == {"normal", "degradation", "failure", "seasonal", "spike"}

GeneratorCalls ==
    [detector : {"generate_reading"}, sensor : Sensors,
     t_hours : {6 * q : q \in 0..MaxQuarters}, pattern : Patterns,
     noise : -MaxNoise..MaxNoise, upward : BOOLEAN]

InitGenerator ==
    /\ call \in GeneratorCalls
    /\ result = NoResult
    /\ clock = 0
    /\ td_context = [critical_high |-> 3, warning_high |-> 3,
                     critical_low |-> 1, warning_low |-> 1]
    /\ ma_context = [window_size |-> 5, deviation_threshold |-> 2]
    /\ roc_context = [max_rate |-> 10, time_window_seconds |-> 60]
    /\ _sensor_windows = << >>
    /\ _sensor_states = << >>
    /\ ma_history = << >>
    /\ ma_fixed = << >>
    /\ threads = [t \in ThreadIds |-> Idle]
    /\ heap = << >>
    /\ base = << >>

GenerateReading ==
    /\ result = NoResult
    /\ result' = [relationship |-> "returned",
                  value |-> generate_reading(call.sensor, call.t_hours, call.pattern,
                                             call.noise, call.upward)]
    /\ UNCHANGED << call, clock, contexts, ma_state, _sensor_states, concurrency >>

GeneratorNext == GenerateReading

SpecGenerator == InitGenerator /\ [][GeneratorNext]_vars

(* C26: for every sensor with min_range <= max_range, every t_hours and    *)
(* every pattern name, known or not, generate_reading returns a value v    *)
(* with min_range <= v <= max_range.                                       *)
C26_ReadingWithinRange ==
    (result.relationship = "returned"
        /\ call.sensor.min_range <= call.sensor.max_range) =>
        /\ call.sensor.min_range <= result.value
        /\ result.value <= call.sensor.max_range

C26_Witness ==
    /\ result.relationship = "returned"
    /\ call.pattern = "spike"
    /\ call.sensor.min_range < call.sensor.max_range
    /\ generate_value(call.sensor, call.t_hours, call.pattern, call.noise,
                      call.upward) < call.sensor.min_range
    /\ result.value = call.sensor.min_range

----------------------------------------------------------------------------
(* Claims about the output record and the attributes                       *)

AnySuccess == call.detector # "none" /\ result.relationship = "success"

(* The key under which each detector writes its nested object.             *)
DetectorKey ==
    CASE call.detector = "ThresholdDetector" -> "anomaly"
      [] call.detector = "MovingAverageDetector" -> "moving_average"
      [] call.detector = "RateOfChangeDetector" -> "rate_of_change"

Nested == result.contents[DetectorKey]

(* C24: in every SUCCESS outcome of the three detectors the anomaly type   *)
(* is "none" exactly when the severity is NORMAL, and the severity is one  *)
(* of NORMAL, WARNING, CRITICAL; UNKNOWN comes with FAILURE only.          *)
C24_TypeNoneIffNormal ==
    /\ AnySuccess =>
           /\ Nested.severity \in {"NORMAL", "WARNING", "CRITICAL"}
           /\ result.attributes.anomaly_severity = Nested.severity
           /\ result.attributes.anomaly_type = "none" <=> Nested.severity = "NORMAL"
           /\ call.detector # "RateOfChangeDetector" =>
                  (Nested.type = "none" <=> Nested.severity = "NORMAL")
    /\ (call.detector # "none" /\ result.relationship = "failure") =>
           result.attributes.anomaly_severity = "UNKNOWN"

C24_Witness ==
    /\ AnySuccess
    /\ call.detector = "MovingAverageDetector"
    /\ Nested.severity = "WARNING"
    /\ Nested.type # "none"
    /\ S1 \in DOMAIN _sensor_states
    /\ _sensor_states[S1].value = 100

(* An attribute mirrors a nested field that may be null: the string form   *)
(* of its number, and no number's string form when the field is null.      *)
MirrorsNullable(attribute, field) ==
    IF field # None THEN attribute = Str(field[1])
    ELSE attribute = << >> \/ attribute[1] # "str"

(* C25 as claimed: in every SUCCESS outcome each flat attribute is the      *)
(* string form of the nested object's field of the same name, and a null   *)
(* nested numeric field is never reported as a number.                     *)
C25_AttributesMirrorNested ==
    AnySuccess =>
        LET attributes == result.attributes IN
        /\ attributes.anomaly_severity = Nested.severity
        /\ attributes.anomaly_detected_at = Str(Nested.detected_at)
        /\ attributes.anomaly_detector = Nested.detector
        /\ call.detector = "ThresholdDetector" =>
               /\ attributes.anomaly_type = Nested.type
               /\ MirrorsNullable(attributes.anomaly_threshold_value,
                                  Nested.threshold_value)
        /\ call.detector = "MovingAverageDetector" =>
               /\ attributes.anomaly_type = Nested.type
               /\ MirrorsNullable(attributes.ma_deviation, Nested.deviation)
               /\ attributes.ma_mean = Str(Nested.mean)
               /\ attributes.ma_stddev = Str(Nested.stddev)
               /\ attributes.ma_window_count = Str(Nested.window_count)
        /\ call.detector = "RateOfChangeDetector" =>
               /\ MirrorsNullable(attributes.roc_rate, Nested.rate)
               /\ attributes.roc_is_spike = (IF Nested.is_spike THEN "true" ELSE "false")

(* Two ThresholdDetector calls in a row with the same record content and   *)
(* the same bounds.                                                        *)
TDSameCallAgain ==
    /\ call.detector = "ThresholdDetector"
    /\ call'.detector = "ThresholdDetector"
    /\ call'.flowfile = call.flowfile
    /\ call'.context = call.context

(* A ThresholdDetector result without its time stamp.                      *)
TDUnstamped(r) ==
    IF r.relationship # "success" THEN r
    ELSE [r EXCEPT !.contents.anomaly.detected_at = 0,
                   !.contents.record["anomaly"].detected_at = 0,
                   !.attributes.anomaly_detected_at = Str(0)]

----------------------------------------------------------------------------
(* Claims about the bound on the deviation and about warm-up               *)

(* A SUCCESS outcome that the deviation comparison decided.                *)
MAByComparison ==
    MASuccess /\ result.branch \in {"critical", "warning", "normal"}

(* In exact arithmetic the deviation of the last value of the window is at *)
(* most sqrt(n - 1).                                                       *)
MAExactDeviationBounded ==
    LET items == _sensor_windows[MASensor].items
        value == items[Len(items)]
    IN  DevNum(value, items) * DevNum(value, items)
            <= (Len(items) - 1) * VarNum(items)

----------------------------------------------------------------------------
(* Claims about the isolation of sensors                                   *)

(* The part of a store that one sensor owns.                               *)
OwnState(store, sensor_id) ==
    [k \in DOMAIN store \cap {sensor_id} |-> store[k]]

(* A store keeps its sensors, and every entry but the one of `sensor_id`.  *)
OthersKept(store, after, sensor_id) ==
    /\ DOMAIN store \subseteq DOMAIN after
    /\ \A other \in DOMAIN store \ {sensor_id} : after[other] = store[other]

(* C30: an evaluation for one sensor on MovingAverageDetector or on        *)
(* RateOfChangeDetector leaves the stored state of every other sensor as   *)
(* it was, returns what it would return if the store held that sensor's    *)
(* state alone, and no sensor ever leaves a store.                         *)
C30_SensorsIsolated ==
    [][/\ call'.detector = "MovingAverageDetector" =>
              /\ OthersKept(_sensor_windows, _sensor_windows', call'.flowfile.sensor_id)
              /\ _sensor_states' = _sensor_states
              /\ result' = MovingAverageDetector_transform(
                               OwnState(_sensor_windows, call'.flowfile.sensor_id),
                               call'.context, call'.flowfile, clock').result
       /\ call'.detector = "RateOfChangeDetector" =>
              /\ OthersKept(_sensor_states, _sensor_states', call'.flowfile.sensor_id)
              /\ _sensor_windows' = _sensor_windows
              /\ result' = RateOfChangeDetector_transform(
                               OwnState(_sensor_states, call'.flowfile.sensor_id),
                               call'.context, call'.flowfile, clock').result
       /\ call'.detector = "ThresholdDetector" =>
              /\ _sensor_windows' = _sensor_windows
              /\ _sensor_states' = _sensor_states]_vars

(* A reading of S1 classified from S1's own last observation while S2 has  *)
(* state in both stores.                                                   *)
C30_Witness ==
    /\ ROCSuccess
    /\ ROCSensor = S1
    /\ ROCOutcome.severity = "WARNING"
    /\ S2 \in DOMAIN _sensor_states
    /\ S2 \in DOMAIN _sensor_windows
    /\ S1 \in DOMAIN _sensor_windows
    /\ Len(_sensor_windows[S1].items) >= 2
    /\ Len(_sensor_windows[S2].items) >= 2

----------------------------------------------------------------------------
(* Claims about concurrent calls                                           *)

(* The store that thread `first`'s call followed by thread `second`'s      *)
(* leaves, from the store the calls found.                                 *)
MASerialWindows(first, second) ==
    MovingAverageDetector_transform(
        MovingAverageDetector_transform(base, ma_context,
            threads[first].flowfile, clock).windows,
        ma_context, threads[second].flowfile, clock).windows

(* C18 as claimed: after two concurrent evaluations of one sensor, the     *)
(* stored window holds both values and is the window one of the two serial *)
(* orders leaves.                                                          *)
C18_WindowSerialized ==
    AllDone /\ threads[1].flowfile.sensor_id = threads[2].flowfile.sensor_id =>
        LET sid == threads[1].flowfile.sensor_id
            stored == heap[_sensor_windows[sid]]
        IN  \/ stored = MASerialWindows(1, 2)[sid]
            \/ stored = MASerialWindows(2, 1)[sid]

(* severity, is_spike and rate of a result.                                *)
ROCClassification(r) ==
    << r.contents.rate_of_change.severity, r.contents.rate_of_change.is_spike,
       r.contents.rate_of_change.rate >>

(* Whether the two results and the store are those of thread `first`'s     *)
(* call followed by thread `second`'s, from the store the calls found.     *)
ROCSerial(first, second) ==
    LET a == RateOfChangeDetector_transform(base, roc_context,
                threads[first].flowfile, clock)
        b == RateOfChangeDetector_transform(a.states, roc_context,
                threads[second].flowfile, clock)
    IN  /\ ROCClassification(threads[first].result) = ROCClassification(a.result)
        /\ ROCClassification(threads[second].result) = ROCClassification(b.result)
        /\ _sensor_states = b.states

(* C19 as claimed: after two concurrent evaluations of one sensor, the two *)
(* classifications and the stored state are those of one of the two serial *)
(* orders.                                                                 *)
C19_StateSerialized ==
    AllDone /\ threads[1].flowfile.sensor_id = threads[2].flowfile.sensor_id =>
        ROCSerial(1, 2) \/ ROCSerial(2, 1)

====
